---- MODULE Spec2Model ----
(***************************************************************************)
(* Order-accrual pipeline and wallet ledger of gophermart.                 *)
(*                                                                         *)
(* Database state is the committed state of PostgreSQL (READ COMMITTED):   *)
(* a transaction's writes become visible at its commit, and an UPDATE of a *)
(* wallet row holds that row's lock until the transaction ends.            *)
(* Amounts are integers (NUMERIC columns, float64 in Go).                  *)
(***************************************************************************)
EXTENDS Integers, Sequences, FiniteSets, TLC

\* ------------------------------------------------------------------ bounds
MaxAccrual == 1    \* largest accrual the oracle reports
MaxAmount == 1     \* largest sum a withdraw request asks for
MaxCrashes == 1    \* process crashes followed by a restart
MaxFails == 2      \* failed oracle calls per order where the oracle is scripted
MaxRows == 101     \* rows of table orders where only startup recovery runs
MaxLate == 1       \* how many request intervals the processor may idle behind the limiter
MaxPermuted == 3   \* largest result set whose row orders are all enumerated

\* --------------------------------------------------------------- constants
QueueCap == 100    \* make(chan models.Order, 100)
PageSize == 20     \* limit := 20 in ProcessUnfinishedOrders

Users == {"u1", "u2"}
\* order identifiers are digit strings; two pass the Luhn check, one fails
OrderIds == {<<1, 8>>, <<2, 6>>, <<1, 2>>}
\* identifiers that withdraw requests name: one passes the Luhn check
WithdrawIds == {<<1, 8>>, <<1, 2>>}
\* the HTTP requests of a run: two order submissions, two withdrawals
CSlots == {"c1", "c2"}
WSlots == {"w1", "w2"}
\* request.Sum is any number, also zero or negative
Amounts == (0 - 1) .. MaxAmount
\* lock holders besides the withdraw requests
Free == "free"
ProcTx == "proc"

\* models.Status (NEW is a reserved word of TLA+)
StNEW == "NEW"
StPROCESSING == "PROCESSING"
StINVALID == "INVALID"
StPROCESSED == "PROCESSED"

VARIABLES
  orders,       \* table orders: id -> <<>> (no row) or <<[user, status, accrual]>>
  wallets,      \* table wallets: user -> [credits, debits]
  withdrawals,  \* table withdrawals, in insertion order
  lock,         \* wallet row lock: user -> Free, a withdraw request, or ProcTx
  queue,        \* processOrderChannel
  cache,        \* go-cache of OrderCacheImpl: id -> <<>> or <<[val, expired]>>
  evicting,     \* values DeleteExpired has removed and onEvicted still has to send
  ppc,          \* position of ProcessOrders
  cur,          \* the processor's local `order`
  creq,         \* POST /api/user/orders requests
  wreq,         \* POST /api/user/balance/withdraw requests
  phase,        \* "up", "down" (crashed), "stuck" (startup recovery blocked)
  crashes,      \* number of crashes so far
  fails,        \* the oracle: id -> failed GetOrderInfo calls it has caused
  applied,      \* history: id -> amounts credited, by committed transactions, for that order
  users,        \* table users: rows [uuid, login]
  rreq,         \* POST /api/user/register requests
  now,          \* the clock, in microseconds, where time is followed
  last,         \* rateLimiter: <<>> or <<the instant of the last Take>>
  requests,     \* history: the instants of the requests sent to the oracle
  shutdown      \* main's shutdown: "no", "closed" (channel closed), "cancelled" (context)

vars == <<orders, wallets, withdrawals, lock, queue, cache, evicting, ppc, cur,
          creq, wreq, phase, crashes, fails, applied, users, rreq, now, last, requests,
          shutdown>>

\* ------------------------------------------------------------ pure helpers
\* goluhn.calculateLuhnSum: every digit at an index of parity p is doubled,
\* and 9 is taken off a doubled digit above 9
RECURSIVE calculateLuhnSum(_, _, _)
calculateLuhnSum(number, parity, i) ==
  IF i > Len(number) THEN 0
  ELSE LET d == number[i]
           dd == IF (i - 1) % 2 = parity
                 THEN (IF 2 * d > 9 THEN 2 * d - 9 ELSE 2 * d)
                 ELSE d
       IN dd + calculateLuhnSum(number, parity, i + 1)

\* mutant of the Luhn check: every identifier passes
LuhnValidAlways(number) == TRUE

\* goluhn.Validate(number) = nil
LuhnValid(number) == calculateLuhnSum(number, Len(number) % 2, 1) % 10 = 0

\* mutant of the switch: the default branch returns NEW
mapAccrualResponseStatusDefaultNew(s) ==
  CASE s = "PROCESSING" -> StPROCESSING
    [] s = "REGISTERED" -> StNEW
    [] s = "INVALID" -> StINVALID
    [] s = "PROCESSED" -> StPROCESSED
    [] OTHER -> StNEW

\* mapAccrualResponseStatus
mapAccrualResponseStatus(s) ==
  CASE s = "PROCESSING" -> StPROCESSING
    [] s = "REGISTERED" -> StNEW
    [] s = "INVALID" -> StINVALID
    [] s = "PROCESSED" -> StPROCESSED
    [] OTHER -> StINVALID

\* no order in hand; also the zero value of models.Order, which a receive
\* from the closed channel yields
NoOrder == [id |-> <<>>, user |-> "", status |-> "", accrual |-> <<>>]

\* the keys the retry buffer can hold: order.ID of any value it is given
CacheKeys == OrderIds \cup {NoOrder.id}

\* ---------------------------------------------------------- retry buffer
\* mutant of AddOrder: the order is not kept
AddOrderDropped(c, order) == c

\* mutant of cache.Add: cache.Set, which replaces a live entry too
AddOrderOverwrites(c, order) ==
  [c EXCEPT ![order.id] = <<[val |-> order, expired |-> FALSE]>>]

\* cache.Add(order.ID, *order, DefaultExpiration): an error, and no change,
\* when a live entry exists; an expired entry that the janitor has not yet
\* removed is overwritten without a call of onEvicted
AddOrder(c, order) ==
  IF c[order.id] # <<>> /\ ~c[order.id][1].expired
  THEN c
  ELSE [c EXCEPT ![order.id] = <<[val |-> order, expired |-> FALSE]>>]

\* the entry's TTL (10s) runs out
CacheExpire(id) ==
  /\ phase = "up"
  /\ cache[id] # <<>>
  /\ ~cache[id][1].expired
  /\ cache' = [cache EXCEPT ![id] = <<[val |-> @[1].val, expired |-> TRUE]>>]
  /\ UNCHANGED <<orders, wallets, withdrawals, lock, queue, evicting, ppc, cur,
                 creq, wreq, phase, crashes, fails, applied,
                 users, rreq, now, last, requests, shutdown>>

\* the enumerations of a finite set of identifiers (Go map iteration order,
\* row order of a SELECT without ORDER BY)
Perms(S) == {f \in [1 .. Cardinality(S) -> S] : \A x \in S : \E i \in DOMAIN f : f[i] = x}

\* mutant of the janitor: it emits the expired entries and keeps them
DeleteExpiredKeeps ==
  /\ phase = "up"
  /\ evicting = <<>>
  /\ \E id \in DOMAIN cache : cache[id] # <<>> /\ cache[id][1].expired
  /\ LET ex == {id \in DOMAIN cache : cache[id] # <<>> /\ cache[id][1].expired}
     IN \E f \in Perms(ex) : evicting' = [i \in DOMAIN f |-> cache[f[i]][1].val]
  /\ UNCHANGED <<orders, wallets, withdrawals, lock, queue, cache, ppc, cur,
                 creq, wreq, phase, crashes, fails, applied,
                 users, rreq, now, last, requests, shutdown>>

\* mutant of the janitor: it removes and emits live entries too
DeleteExpiredEarly ==
  /\ phase = "up"
  /\ evicting = <<>>
  /\ \E id \in DOMAIN cache : cache[id] # <<>>
  /\ LET ex == {id \in DOMAIN cache : cache[id] # <<>>}
     IN /\ \E f \in Perms(ex) : evicting' = [i \in DOMAIN f |-> cache[f[i]][1].val]
        /\ cache' = [id \in DOMAIN cache |-> IF id \in ex THEN <<>> ELSE cache[id]]
  /\ UNCHANGED <<orders, wallets, withdrawals, lock, queue, ppc, cur,
                 creq, wreq, phase, crashes, fails, applied,
                 users, rreq, now, last, requests, shutdown>>

\* janitor tick (every 5min): DeleteExpired removes every expired entry
\* and then calls onEvicted for each removed value
DeleteExpired ==
  /\ phase = "up"
  /\ evicting = <<>>
  /\ \E id \in DOMAIN cache : cache[id] # <<>> /\ cache[id][1].expired
  /\ LET ex == {id \in DOMAIN cache : cache[id] # <<>> /\ cache[id][1].expired}
     IN /\ \E f \in Perms(ex) : evicting' = [i \in DOMAIN f |-> cache[f[i]][1].val]
        /\ cache' = [id \in DOMAIN cache |-> IF id \in ex THEN <<>> ELSE cache[id]]
  /\ UNCHANGED <<orders, wallets, withdrawals, lock, queue, ppc, cur,
                 creq, wreq, phase, crashes, fails, applied,
                 users, rreq, now, last, requests, shutdown>>

\* onEvicted: orderChan <- order (blocks while the channel is full)
OnEvicted ==
  /\ phase = "up"
  /\ shutdown = "no"
  /\ evicting # <<>>
  /\ Len(queue) < QueueCap
  /\ queue' = Append(queue, Head(evicting))
  /\ evicting' = Tail(evicting)
  /\ UNCHANGED <<orders, wallets, withdrawals, lock, cache, ppc, cur,
                 creq, wreq, phase, crashes, fails, applied,
                 users, rreq, now, last, requests, shutdown>>

\* ------------------------------------------------------------- processor
OracleStatuses == {"REGISTERED", "PROCESSING", "INVALID", "PROCESSED", "", "UNKNOWN"}

\* what GetOrderInfo returns on success: the decoded AccrualResponseDto
OracleResponses == [status : OracleStatuses, accrual : 0 .. MaxAccrual]

\* case order := <-op.processOrderChan
PRecv ==
  /\ phase = "up"
  /\ ppc = "recv"
  /\ queue # <<>>
  /\ cur' = Head(queue)
  /\ queue' = Tail(queue)
  /\ ppc' = "poll"
  /\ UNCHANGED <<orders, wallets, withdrawals, lock, cache, evicting,
                 creq, wreq, phase, crashes, fails, applied,
                 users, rreq, now, last, requests, shutdown>>

\* mutant of the error branch: continue without AddOrder
PollFailedForgets ==
  /\ phase = "up"
  /\ ppc = "poll"
  /\ cur' = NoOrder
  /\ ppc' = "recv"
  /\ UNCHANGED <<orders, wallets, withdrawals, lock, queue, cache, evicting,
                 creq, wreq, phase, crashes, applied, users, rreq, shutdown>>

\* GetOrderInfo fails (transport, 204, other status, decode): AddOrder, continue
PollFailed ==
  /\ phase = "up"
  /\ ppc = "poll"
  /\ cache' = AddOrder(cache, cur)
  /\ cur' = NoOrder
  /\ ppc' = "recv"
  /\ UNCHANGED <<orders, wallets, withdrawals, lock, queue, evicting,
                 creq, wreq, phase, crashes, applied, users, rreq, shutdown>>

\* GetOrderInfo answers r: the assignments to order.Accrual and order.Status
PollAnswered(r) ==
  /\ phase = "up"
  /\ ppc = "poll"
  /\ cur' = [cur EXCEPT !.accrual = <<r.accrual>>,
                        !.status = mapAccrualResponseStatus(r.status)]
  /\ ppc' = "update"
  /\ UNCHANGED <<orders, wallets, withdrawals, lock, queue, cache, evicting,
                 creq, wreq, phase, crashes, applied, users, rreq, shutdown>>

\* the oracle is free to fail or to answer anything
PPoll ==
  /\ \/ PollFailed
     \/ \E r \in OracleResponses : PollAnswered(r)
  /\ UNCHANGED <<fails, now, last, requests>>

\* defaultAccrualMaxRequestsPerMinute
Rate == 60

\* time.Second in microseconds: ratelimit.New(rate) allows rate per second
Second == 1000000

Minute == 60 * Second

\* ratePerSecond := c.AccrualMaxRequestsPerMinute / 1
ratePerSecond(perMinute) == perMinute \div 1

\* the limiter's interval between two requests: time.Second / rate
perRequest == Second \div ratePerSecond(Rate)

\* ac.rateLimiter.Take(): sleeps until perRequest after the last Take, then
\* the request goes out. (The limiter's slack only lets requests follow
\* each other faster after an idle period.)
Take ==
  /\ now' = IF last = <<>> \/ now >= last[1] + perRequest THEN now
            ELSE last[1] + perRequest
  /\ last' = <<now'>>
  /\ requests' = Append(requests, now')

\* GetOrderInfo against an oracle that is down: Take, then the error branch
OracleDown ==
  /\ Take
  /\ PollFailed
  /\ UNCHANGED fails

\* the processor finds the channel served late: time passes between orders
Tick ==
  /\ phase = "up"
  /\ ppc = "recv"
  /\ now < (Len(requests) + MaxLate) * perRequest
  /\ now' = now + perRequest
  /\ UNCHANGED <<orders, wallets, withdrawals, lock, queue, cache, evicting, ppc, cur,
                 creq, wreq, phase, crashes, fails, applied, users, rreq, last, requests, shutdown>>

\* a scripted oracle: it fails at most MaxFails calls for an order ...
OracleFails ==
  /\ ppc = "poll"
  /\ cur.id \in DOMAIN fails
  /\ fails[cur.id] < MaxFails
  /\ PollFailed
  /\ fails' = [fails EXCEPT ![cur.id] = @ + 1]
  /\ UNCHANGED <<now, last, requests>>

\* ... and answers every other call PROCESSED with an accrual a > 0
OracleProcessed ==
  /\ \E a \in 1 .. MaxAccrual : PollAnswered([status |-> "PROCESSED", accrual |-> a])
  /\ UNCHANGED <<fails, now, last, requests>>

\* mutant of the constraint: every accrual passes
AccrualPositiveAlways(accrual) == TRUE

\* constraint accrual_positive check (accrual > 0); NULL passes
AccrualPositive(accrual) == accrual = <<>> \/ accrual[1] > 0

\* updateOrder gives up: AddOrder(order), rollback, return the error
GiveUp ==
  /\ cache' = AddOrder(cache, cur)
  /\ lock' = [u \in Users |-> IF lock[u] = ProcTx THEN Free ELSE lock[u]]
  /\ cur' = NoOrder
  /\ ppc' = "recv"
  /\ UNCHANGED <<orders, wallets, withdrawals, queue, evicting,
                 creq, wreq, phase, crashes, fails, applied,
                 users, rreq, now, last, requests, shutdown>>

\* updateOrder: BeginTxx and orderRepo.UpdateOrder succeed
PUpdateOk ==
  /\ phase = "up"
  /\ ppc = "update"
  /\ AccrualPositive(cur.accrual)
  /\ ppc' = "credit"
  /\ UNCHANGED <<orders, wallets, withdrawals, lock, queue, cache, evicting, cur,
                 creq, wreq, phase, crashes, fails, applied,
                 users, rreq, now, last, requests, shutdown>>

\* orderRepo.UpdateOrder violates accrual_positive
PUpdateRejected ==
  /\ phase = "up"
  /\ ppc = "update"
  /\ ~AccrualPositive(cur.accrual)
  /\ GiveUp

\* BeginTxx or orderRepo.UpdateOrder fails in the database
PUpdateFault ==
  /\ phase = "up"
  /\ ppc = "update"
  /\ GiveUp

PUpdate ==
  \/ PUpdateOk
  \/ PUpdateRejected
  \/ PUpdateFault

\* mutant of the row lock: an UPDATE never waits
RowLockIgnored(u, t) == TRUE

\* the wallet row can be updated by transaction t
RowLockFree(u, t) == lock[u] = Free \/ lock[u] = t

\* updateOrder: walletService.Credit, called whatever the status is; the
\* UPDATE waits for the wallet row lock and returns the row (no row of
\* that user: sql.ErrNoRows, the error branch). The amount has passed
\* accrual_positive, so credits_positive (credits >= 0) holds of the new row
PCreditOk ==
  /\ phase = "up"
  /\ ppc = "credit"
  /\ cur.user \in DOMAIN lock
  /\ RowLockFree(cur.user, ProcTx)
  /\ lock' = [lock EXCEPT ![cur.user] = ProcTx]
  /\ ppc' = "commit"
  /\ UNCHANGED <<orders, wallets, withdrawals, queue, cache, evicting, cur,
                 creq, wreq, phase, crashes, fails, applied,
                 users, rreq, now, last, requests, shutdown>>

\* walletService.Credit fails in the database
PCreditFault ==
  /\ phase = "up"
  /\ ppc = "credit"
  /\ GiveUp

\* walletService.Credit fails and so does tx.Rollback (the connection is
\* gone, the database ends the transaction): updateOrder returns the
\* rollback error before it reaches AddOrder
PCreditRollbackFault ==
  /\ phase = "up"
  /\ ppc = "credit"
  /\ lock' = [u \in Users |-> IF lock[u] = ProcTx THEN Free ELSE lock[u]]
  /\ cur' = NoOrder
  /\ ppc' = "recv"
  /\ UNCHANGED <<orders, wallets, withdrawals, queue, cache, evicting,
                 creq, wreq, phase, crashes, fails, applied,
                 users, rreq, now, last, requests, shutdown>>

PCredit ==
  \/ PCreditOk
  \/ PCreditFault
  \/ PCreditRollbackFault

\* mutant of UpdateOrder: the row is left as it was
UpdateOrderLost(tbl, order) == tbl

\* UPDATE orders SET status, accrual WHERE id (owner and key stay)
UpdateOrder(tbl, order) ==
  IF tbl[order.id] = <<>> THEN tbl
  ELSE [tbl EXCEPT ![order.id] =
          <<[user |-> @[1].user, status |-> order.status, accrual |-> order.accrual]>>]

\* UPDATE wallets SET credits = credits + amount
Credit(tbl, u, amount) == [tbl EXCEPT ![u].credits = @ + amount]

\* updateOrder: tx.Commit makes the order update and the credit visible
\* together
PCommitOk ==
  /\ phase = "up"
  /\ ppc = "commit"
  /\ orders' = UpdateOrder(orders, cur)
  /\ wallets' = Credit(wallets, cur.user, cur.accrual[1])
  /\ applied' = [applied EXCEPT ![cur.id] = Append(@, cur.accrual[1])]
  /\ lock' = [u \in Users |-> IF lock[u] = ProcTx THEN Free ELSE lock[u]]
  /\ cur' = NoOrder
  /\ ppc' = "recv"
  /\ UNCHANGED <<withdrawals, queue, cache, evicting, creq, wreq, phase, crashes, fails,
                 users, rreq, now, last, requests, shutdown>>

\* tx.Commit fails: both writes are rolled back
PCommitFault ==
  /\ phase = "up"
  /\ ppc = "commit"
  /\ GiveUp

PCommit ==
  \/ PCommitOk
  \/ PCommitFault

\* ------------------------------------------------------- order submission
IdleC == [pc |-> "idle", user |-> "", id |-> <<>>, expired |-> FALSE,
          res |-> 0, msg |-> ""]

\* the handler has written its answer
Respond(r, code, message) ==
  [r EXCEPT !.pc = "done", !.expired = FALSE, !.res = code, !.msg = message]

\* OrdersHandler.CreateOrder up to the service call: goluhn.Validate
COStart(c) ==
  /\ phase = "up"
  /\ shutdown = "no"
  /\ creq[c].pc = "idle"
  /\ \E u \in Users, id \in OrderIds :
       LET r == [creq[c] EXCEPT !.user = u, !.id = id]
       IN creq' = [creq EXCEPT ![c] =
                     IF LuhnValid(id) THEN [r EXCEPT !.pc = "lookup"]
                     ELSE Respond(r, 422, "Invalid order ID")]
  /\ UNCHANGED <<orders, wallets, withdrawals, lock, queue, cache, evicting, ppc, cur,
                 wreq, phase, crashes, fails, applied,
                 users, rreq, now, last, requests, shutdown>>

\* context.WithTimeout(..., oh.contextTimeout): the deadline of a request
\* that is being served passes
CODeadline(c) ==
  /\ phase = "up"
  /\ creq[c].pc \in {"lookup", "insert", "send"}
  /\ ~creq[c].expired
  /\ creq' = [creq EXCEPT ![c].expired = TRUE]
  /\ UNCHANGED <<orders, wallets, withdrawals, lock, queue, cache, evicting, ppc, cur,
                 wreq, phase, crashes, fails, applied,
                 users, rreq, now, last, requests, shutdown>>

\* mutants of the owner comparisons: the branch is never taken
OwnedByOtherNever(row, u) == FALSE

OwnedBySameNever(row, u) == FALSE

\* order != nil && userUID.String() != order.UserUUID.String()
OwnedByOther(row, u) == row # <<>> /\ row[1].user # u

\* order != nil && userUID.String() == order.UserUUID.String()
OwnedBySame(row, u) == row # <<>> /\ row[1].user = u

\* OrderServiceImpl.CreateOrder: GetOrderByID and the owner comparison.
\* After the deadline the lookup's error counts as "not found" and the
\* insert fails on the expired context
COLookup(c) ==
  /\ phase = "up"
  /\ creq[c].pc = "lookup"
  /\ LET r == creq[c]
         row == orders[r.id]
     IN creq' = [creq EXCEPT ![c] =
          IF r.expired THEN Respond(r, 500, "Internal Server Error")
          ELSE IF OwnedByOther(row, r.user)
            THEN Respond(r, 409, "order already created by another user")
          ELSE IF OwnedBySame(row, r.user)
            THEN Respond(r, 200, "")
          ELSE [r EXCEPT !.pc = "insert"]]
  /\ UNCHANGED <<orders, wallets, withdrawals, lock, queue, cache, evicting, ppc, cur,
                 wreq, phase, crashes, fails, applied,
                 users, rreq, now, last, requests, shutdown>>

\* OrderRepositoryImpl.CreateOrder: INSERT INTO orders in its own
\* transaction; id is the primary key
COInsert(c) ==
  /\ phase = "up"
  /\ creq[c].pc = "insert"
  /\ LET r == creq[c]
     IN IF r.expired \/ orders[r.id] # <<>>
        THEN /\ creq' = [creq EXCEPT ![c] = Respond(r, 500, "Internal Server Error")]
             /\ UNCHANGED orders
        ELSE /\ orders' = [orders EXCEPT ![r.id] =
                             <<[user |-> r.user, status |-> StNEW, accrual |-> <<>>]>>]
             /\ creq' = [creq EXCEPT ![c].pc = "send"]
  /\ UNCHANGED <<wallets, withdrawals, lock, queue, cache, evicting, ppc, cur,
                 wreq, phase, crashes, fails, applied,
                 users, rreq, now, last, requests, shutdown>>

\* os.orderChan <- *newOrder (blocks while the channel is full, whatever the
\* context says), then the handler's GetContextError and
\* WriteHeader(StatusAccepted); late: the deadline passes after the send
COSend(c) ==
  /\ phase = "up"
  /\ creq[c].pc = "send"
  /\ Len(queue) < QueueCap
  /\ queue' = Append(queue, [id |-> creq[c].id, user |-> creq[c].user,
                             status |-> StNEW, accrual |-> <<>>])
  /\ \E late \in BOOLEAN :
       creq' = [creq EXCEPT ![c] =
                  IF creq[c].expired \/ late THEN Respond(@, 500, "Timeout exceeded")
                  ELSE Respond(@, 202, "")]
  /\ UNCHANGED <<orders, wallets, withdrawals, lock, cache, evicting, ppc, cur,
                 wreq, phase, crashes, fails, applied,
                 users, rreq, now, last, requests, shutdown>>

Intake(c) ==
  \/ COStart(c)
  \/ CODeadline(c)
  \/ COLookup(c)
  \/ COInsert(c)
  \/ COSend(c)

\* ------------------------------------------------------------- withdrawal
NoWallet == [credits |-> 0, debits |-> 0]

\* wallet: the row Debit returned to the request
IdleW == [pc |-> "idle", user |-> "", id |-> <<>>, amount |-> 0, expired |-> FALSE,
          wallet |-> NoWallet, res |-> 0, msg |-> ""]

\* BalanceHandler.Withdraw up to the service call: goluhn.Validate
WStart(w) ==
  /\ phase = "up"
  /\ shutdown = "no"
  /\ wreq[w].pc = "idle"
  /\ \E u \in Users, id \in WithdrawIds, amt \in Amounts :
       LET r == [wreq[w] EXCEPT !.user = u, !.id = id, !.amount = amt]
       IN wreq' = [wreq EXCEPT ![w] =
                     IF LuhnValid(id) THEN [r EXCEPT !.pc = "debit"]
                     ELSE Respond(r, 422, "Invalid order ID")]
  /\ UNCHANGED <<orders, wallets, withdrawals, lock, queue, cache, evicting, ppc, cur,
                 creq, phase, crashes, fails, applied,
                 users, rreq, now, last, requests, shutdown>>

\* context.WithTimeout(..., bh.contextTimeout): the deadline passes
WDeadline(w) ==
  /\ phase = "up"
  /\ wreq[w].pc \in {"debit", "insert"}
  /\ ~wreq[w].expired
  /\ wreq' = [wreq EXCEPT ![w].expired = TRUE]
  /\ UNCHANGED <<orders, wallets, withdrawals, lock, queue, cache, evicting, ppc, cur,
                 creq, phase, crashes, fails, applied,
                 users, rreq, now, last, requests, shutdown>>

\* mutant of Debit: the row comes back without the amount added
DebitUnapplied(tbl, u, amount) == tbl[u]

\* UPDATE wallets SET debits = debits + amount ... returning *
Debit(tbl, u, amount) == [tbl[u] EXCEPT !.debits = @ + amount]

\* constraint debits_positive check (debits >= 0)
DebitsPositive(row) == row.debits >= 0

\* mutants of the balance check: the debits are left out; off by one
InsufficientFundsCreditsOnly(row) == row.credits < 0

InsufficientFundsLax(row) == row.credits - row.debits < 0 - 1

\* (wallet.Credits - wallet.Debits) < 0
InsufficientFunds(row) == row.credits - row.debits < 0

\* CreateWithdrawal: BeginTxx, walletService.Debit (waits for the row lock)
\* and the balance check on the returned row
WDebit(w) ==
  /\ phase = "up"
  /\ wreq[w].pc = "debit"
  /\ LET r == wreq[w]
         row == Debit(wallets, r.user, r.amount)
         seen == [r EXCEPT !.wallet = row]
     IN IF r.expired
        THEN /\ wreq' = [wreq EXCEPT ![w] = Respond(r, 500, "Internal Server Error")]
             /\ UNCHANGED lock
        ELSE /\ RowLockFree(r.user, w)
             /\ IF ~DebitsPositive(row)
                THEN /\ wreq' = [wreq EXCEPT ![w] = Respond(r, 500, "Internal Server Error")]
                     /\ UNCHANGED lock
                ELSE IF InsufficientFunds(row)
                THEN /\ wreq' = [wreq EXCEPT ![w] = Respond(seen, 402, "insufficient funds")]
                     /\ UNCHANGED lock
                ELSE /\ wreq' = [wreq EXCEPT ![w] = [seen EXCEPT !.pc = "insert"]]
                     /\ lock' = [lock EXCEPT ![r.user] = w]
  /\ UNCHANGED <<orders, wallets, withdrawals, queue, cache, evicting, ppc, cur,
                 creq, phase, crashes, fails, applied,
                 users, rreq, now, last, requests, shutdown>>

\* mutant of the constraint: every amount passes
AmountPositiveAlways(amount) == TRUE

\* constraint amount_positive check (amount > 0)
AmountPositive(amount) == amount > 0

\* CreateWithdrawal: withdrawalRepo.CreateWithdrawal and tx.Commit (the
\* deferred Rollback undoes the debit on every error; the expired context
\* fails the insert, "create withdrawal", or the commit), then the
\* handler's GetContextError and WriteHeader(StatusOK); late: the deadline
\* passes after the commit
WCommit(w) ==
  /\ phase = "up"
  /\ wreq[w].pc = "insert"
  /\ LET r == wreq[w]
     IN IF r.expired
        THEN /\ \E m \in {"create withdrawal", "Internal Server Error"} :
                  wreq' = [wreq EXCEPT ![w] = Respond(r, 500, m)]
             /\ UNCHANGED <<wallets, withdrawals>>
        ELSE IF ~AmountPositive(r.amount)
        THEN /\ wreq' = [wreq EXCEPT ![w] = Respond(r, 500, "create withdrawal")]
             /\ UNCHANGED <<wallets, withdrawals>>
        ELSE /\ wallets' = [wallets EXCEPT ![r.user].debits = r.wallet.debits]
             /\ withdrawals' = Append(withdrawals,
                                 [user |-> r.user, order |-> r.id, amount |-> r.amount])
             /\ \E late \in BOOLEAN :
                  wreq' = [wreq EXCEPT ![w] =
                             IF late THEN Respond(r, 500, "Timeout exceeded")
                             ELSE Respond(r, 200, "")]
  /\ lock' = [lock EXCEPT ![wreq[w].user] = Free]
  /\ UNCHANGED <<orders, queue, cache, evicting, ppc, cur,
                 creq, phase, crashes, fails, applied,
                 users, rreq, now, last, requests, shutdown>>

Withdraw(w) ==
  \/ WStart(w)
  \/ WDeadline(w)
  \/ WDebit(w)
  \/ WCommit(w)

\* ------------------------------------------------------------ registration
RSlots == {"r1", "r2", "r3"}

\* registerDto.Login; "" is a body without a login
Logins == {"", "a", "b"}

\* tx is the open transaction's uncommitted inserts
IdleR == [pc |-> "idle", login |-> "", tx |-> [user |-> <<>>, wallet |-> <<>>],
          at |-> "", expired |-> FALSE, res |-> 0, msg |-> ""]

\* the handler answers an error met at step r.pc; the deferred tx.Rollback()
\* discards the transaction's inserts
RFail(r, code, message) ==
  [Respond(r, code, message) EXCEPT !.at = r.pc, !.tx = IdleR.tx]

\* UserHandler.Register up to the service call: the body's checks
RStart(r) ==
  /\ phase = "up"
  /\ shutdown = "no"
  /\ rreq[r].pc = "idle"
  /\ \E l \in Logins :
       rreq' = [rreq EXCEPT ![r] =
                  IF l = "" THEN RFail([@ EXCEPT !.login = l], 400,
                                       "Login and password are required")
                  ELSE [@ EXCEPT !.login = l, !.pc = "user"]]
  /\ UNCHANGED <<orders, wallets, withdrawals, lock, queue, cache, evicting, ppc, cur,
                 creq, wreq, phase, crashes, fails, applied, users, now, last, requests, shutdown>>

\* context.WithTimeout(..., uh.contextTimeout): the deadline passes
RDeadline(r) ==
  /\ phase = "up"
  /\ rreq[r].pc \in {"user", "wallet", "commit", "token"}
  /\ ~rreq[r].expired
  /\ rreq' = [rreq EXCEPT ![r].expired = TRUE]
  /\ UNCHANGED <<orders, wallets, withdrawals, lock, queue, cache, evicting, ppc, cur,
                 creq, wreq, phase, crashes, fails, applied, users, now, last, requests, shutdown>>

\* mutant of the unique index: an insert sees no uncommitted row
PendingLoginsNone(r) == {}

\* the logins of other transactions' uncommitted rows of table users
PendingLogins(r) ==
  {rreq[q].tx.user[1].login : q \in {x \in RSlots \ {r} : rreq[x].tx.user # <<>>}}

\* BeginTxx and userRepo.Create: INSERT INTO users with uuid.New(), here the
\* slot's name. login is UNIQUE: the insert waits for an uncommitted row
\* with the same login and fails on a committed one (409); any other
\* error, the expired context among them, is a 500
RInsertUser(r) ==
  /\ phase = "up"
  /\ rreq[r].pc = "user"
  /\ LET q == rreq[r]
     IN \/ /\ q.expired
           /\ rreq' = [rreq EXCEPT ![r] = RFail(q, 500, "Internal Server Error")]
        \/ /\ ~q.expired
           /\ q.login \notin PendingLogins(r)
           /\ rreq' = [rreq EXCEPT ![r] =
                IF \E u \in users : u.login = q.login
                THEN RFail(q, 409, "User already exists")
                ELSE [q EXCEPT !.tx.user = <<[uuid |-> r, login |-> q.login]>>,
                               !.pc = "wallet"]]
        \/ /\ ~q.expired
           /\ rreq' = [rreq EXCEPT ![r] = RFail(q, 500, "Internal Server Error")]
  /\ UNCHANGED <<orders, wallets, withdrawals, lock, queue, cache, evicting, ppc, cur,
                 creq, wreq, phase, crashes, fails, applied, users, now, last, requests, shutdown>>

\* mutant of the wallet insert: no row is written
CreateWalletLost(tx, userUID) == tx

\* WalletServiceImpl.CreateWallet: INSERT INTO wallets (user_uuid, 0, 0) in tx
CreateWallet(tx, userUID) == [tx EXCEPT !.wallet = <<userUID>>]

\* walletService.CreateWallet(ctx, tx, &user.UUID), or its error
RInsertWallet(r) ==
  /\ phase = "up"
  /\ rreq[r].pc = "wallet"
  /\ LET q == rreq[r]
     IN \/ /\ ~q.expired
           /\ rreq' = [rreq EXCEPT ![r] =
                         [q EXCEPT !.tx = CreateWallet(q.tx, q.tx.user[1].uuid),
                                   !.pc = "commit"]]
        \/ rreq' = [rreq EXCEPT ![r] = RFail(q, 500, "create wallet")]
  /\ UNCHANGED <<orders, wallets, withdrawals, lock, queue, cache, evicting, ppc, cur,
                 creq, wreq, phase, crashes, fails, applied, users, now, last, requests, shutdown>>

\* the rows of tbl and a zero-balance row for each of uuids
WithWallets(tbl, uuids) ==
  [u \in DOMAIN tbl \cup uuids |-> IF u \in DOMAIN tbl THEN tbl[u] ELSE NoWallet]

\* tx.Commit(): the transaction's inserts become visible together, or none
RCommit(r) ==
  /\ phase = "up"
  /\ rreq[r].pc = "commit"
  /\ LET q == rreq[r]
     IN \/ /\ ~q.expired
           /\ users' = users \cup {q.tx.user[i] : i \in DOMAIN q.tx.user}
           /\ wallets' = WithWallets(wallets, {q.tx.wallet[i] : i \in DOMAIN q.tx.wallet})
           /\ rreq' = [rreq EXCEPT ![r] = [q EXCEPT !.tx = IdleR.tx, !.pc = "token"]]
        \/ /\ rreq' = [rreq EXCEPT ![r] = RFail(q, 500, "Internal Server Error")]
           /\ UNCHANGED <<users, wallets>>
  /\ UNCHANGED <<orders, withdrawals, lock, queue, cache, evicting, ppc, cur,
                 creq, wreq, phase, crashes, fails, applied, now, last, requests, shutdown>>

\* generateToken, GetContextError, then 200 with the bearer token
RRespond(r) ==
  /\ phase = "up"
  /\ rreq[r].pc = "token"
  /\ rreq' = [rreq EXCEPT ![r] =
                IF @.expired THEN RFail(@, 500, "Timeout exceeded")
                ELSE Respond(@, 200, "")]
  /\ UNCHANGED <<orders, wallets, withdrawals, lock, queue, cache, evicting, ppc, cur,
                 creq, wreq, phase, crashes, fails, applied, users, now, last, requests, shutdown>>

Register(r) ==
  \/ RStart(r)
  \/ RDeadline(r)
  \/ RInsertUser(r)
  \/ RInsertWallet(r)
  \/ RCommit(r)
  \/ RRespond(r)

\* --------------------------------------------------------- crash, restart
\* the process dies: channel, cache and goroutines are gone, open
\* transactions are rolled back by the database, requests get no answer
Crash ==
  /\ phase = "up"
  /\ crashes < MaxCrashes
  /\ crashes' = crashes + 1
  /\ phase' = "down"
  /\ queue' = <<>>
  /\ evicting' = <<>>
  /\ cache' = [id \in CacheKeys |-> <<>>]
  /\ ppc' = "recv"
  /\ cur' = NoOrder
  /\ lock' = [u \in Users |-> Free]
  /\ creq' = [c \in CSlots |-> IF creq[c].pc \in {"idle", "done"} THEN creq[c]
                               ELSE Respond(creq[c], 0, "")]
  /\ wreq' = [w \in WSlots |-> IF wreq[w].pc \in {"idle", "done"} THEN wreq[w]
                               ELSE Respond(wreq[w], 0, "")]
  /\ rreq' = [r \in RSlots |-> IF rreq[r].pc \in {"idle", "done"} THEN rreq[r]
                               ELSE RFail(rreq[r], 0, "")]
  /\ last' = <<>>
  /\ shutdown' = "no"
  /\ UNCHANGED <<orders, wallets, withdrawals, fails, applied, users, now, requests>>

\* mutant of the recovery query: rows of every status
UnprocessedAll(tbl) == {id \in DOMAIN tbl : tbl[id] # <<>>}

\* WHERE status = 'NEW' or status = 'PROCESSING'
Unprocessed(tbl) ==
  {id \in DOMAIN tbl : tbl[id] # <<>> /\ tbl[id][1].status \in {StNEW, StPROCESSING}}

\* one enumeration of a finite set
RECURSIVE SetToSeq(_)
SetToSeq(S) ==
  IF S = {} THEN <<>>
  ELSE LET x == CHOOSE y \in S : TRUE
       IN <<x>> \o SetToSeq(S \ {x})

\* the row orders of a SELECT without ORDER BY: every order of a small
\* result set, one order of a large one
RowOrders(S) == IF Cardinality(S) <= MaxPermuted THEN Perms(S) ELSE {SetToSeq(S)}

Min(a, b) == IF a < b THEN a ELSE b

\* ProcessUnfinishedOrders: the pages of 20 of the rows, concatenated
RECURSIVE ProcessUnfinishedOrders(_, _, _)
ProcessUnfinishedOrders(rows, totalOrders, cnt) ==
  IF cnt < totalOrders
  THEN SubSeq(rows, cnt + 1, Min(cnt + PageSize, Len(rows)))
         \o ProcessUnfinishedOrders(rows, totalOrders, cnt + PageSize)
  ELSE <<>>

\* main after a start: NewOrderProcessor publishes the unfinished orders
\* before ProcessOrders and the HTTP server run; nothing receives meanwhile
Restart ==
  /\ phase = "down"
  /\ \E f \in RowOrders(Unprocessed(orders)) :
       LET rows == [i \in DOMAIN f |->
                      [id |-> f[i], user |-> orders[f[i]][1].user,
                       status |-> orders[f[i]][1].status,
                       accrual |-> orders[f[i]][1].accrual]]
           sent == ProcessUnfinishedOrders(rows, Len(rows), 0)
       IN /\ queue' = SubSeq(sent, 1, Min(Len(sent), QueueCap))
          /\ phase' = IF Len(sent) <= QueueCap THEN "up" ELSE "stuck"
  /\ UNCHANGED <<orders, wallets, withdrawals, lock, cache, evicting, ppc, cur,
                 creq, wreq, crashes, fails, applied,
                 users, rreq, now, last, requests, shutdown>>

\* ---------------------------------------------------------------- shutdown
\* main on a signal: server.Shutdown (no new request, the requests in
\* flight are answered), then close(processOrderChannel)
CloseChannel ==
  /\ phase = "up"
  /\ shutdown = "no"
  /\ \A c \in CSlots : creq[c].pc \in {"idle", "done"}
  /\ \A w \in WSlots : wreq[w].pc \in {"idle", "done"}
  /\ \A r \in RSlots : rreq[r].pc \in {"idle", "done"}
  /\ shutdown' = "closed"
  /\ UNCHANGED <<orders, wallets, withdrawals, lock, queue, cache, evicting, ppc, cur,
                 creq, wreq, phase, crashes, fails, applied,
                 users, rreq, now, last, requests>>

\* serverStopCtx(): the processor's context is cancelled
StopCtx ==
  /\ phase = "up"
  /\ shutdown = "closed"
  /\ shutdown' = "cancelled"
  /\ UNCHANGED <<orders, wallets, withdrawals, lock, queue, cache, evicting, ppc, cur,
                 creq, wreq, phase, crashes, fails, applied,
                 users, rreq, now, last, requests>>

\* main returns: the process ends with whatever its goroutines were doing;
\* an open transaction is rolled back by the database
MainReturns ==
  /\ phase = "up"
  /\ shutdown = "cancelled"
  /\ phase' = "down"
  /\ queue' = <<>>
  /\ evicting' = <<>>
  /\ cache' = [id \in CacheKeys |-> <<>>]
  /\ ppc' = "recv"
  /\ cur' = NoOrder
  /\ lock' = [u \in Users |-> Free]
  /\ last' = <<>>
  /\ shutdown' = "no"
  /\ UNCHANGED <<orders, wallets, withdrawals, creq, wreq, crashes, fails, applied,
                 users, rreq, now, requests>>

\* case order := <-op.processOrderChan on the closed and drained channel:
\* the receive does not block and yields the zero value
PRecvClosed ==
  /\ phase = "up"
  /\ ppc = "recv"
  /\ shutdown # "no"
  /\ queue = <<>>
  /\ cur' = NoOrder
  /\ ppc' = "poll"
  /\ UNCHANGED <<orders, wallets, withdrawals, lock, queue, cache, evicting,
                 creq, wreq, phase, crashes, fails, applied,
                 users, rreq, now, last, requests, shutdown>>

\* mutant of the select: it has no case <-ctx.Done()
PExitNever ==
  /\ FALSE
  /\ UNCHANGED vars

\* case <-ctx.Done(): return
PExit ==
  /\ phase = "up"
  /\ ppc = "recv"
  /\ shutdown = "cancelled"
  /\ ppc' = "returned"
  /\ UNCHANGED <<orders, wallets, withdrawals, lock, queue, cache, evicting, cur,
                 creq, wreq, phase, crashes, fails, applied,
                 users, rreq, now, last, requests, shutdown>>

\* onEvicted after close(processOrderChannel): the send panics in the
\* janitor's goroutine and the process dies
OnEvictedPanic ==
  /\ evicting # <<>>
  /\ shutdown # "no"
  /\ Crash

NextShutdown ==
  \/ CloseChannel
  \/ StopCtx
  \/ MainReturns
  \/ PRecvClosed
  \/ PExit
  \/ OnEvictedPanic

\* ---------------------------------------------------------- specification
ValidIds == {id \in OrderIds : LuhnValid(id)}

\* what is in memory after construction, with no request served yet
FreshProcess ==
  /\ lock = [u \in Users |-> Free]
  /\ cache = [id \in CacheKeys |-> <<>>]
  /\ evicting = <<>>
  /\ ppc = "recv"
  /\ cur = NoOrder
  /\ creq = [c \in CSlots |-> IdleC]
  /\ wreq = [w \in WSlots |-> IdleW]
  /\ phase = "up"
  /\ crashes = 0
  /\ fails = [id \in OrderIds |-> 0]
  /\ rreq = [r \in RSlots |-> IdleR]
  /\ now = 0
  /\ last = <<>>
  /\ requests = <<>>
  /\ shutdown = "no"

\* the users have registered: the user's name stands for uuid and login
Registered == users = {[uuid |-> u, login |-> u] : u \in Users}

\* a fresh database in which the users have registered
Init ==
  /\ orders = [id \in OrderIds |-> <<>>]
  /\ wallets = [u \in Users |-> NoWallet]
  /\ withdrawals = <<>>
  /\ queue = <<>>
  /\ applied = [id \in OrderIds |-> <<>>]
  /\ Registered
  /\ FreshProcess

\* the identifiers ids have been admitted (202) for some owners and
\* nothing has been received from the channel yet; the users are
\* interchangeable, so the owner of <<1, 8>> is called u1
Admitted(ids) ==
  /\ \E own \in [ids -> Users], f \in Perms(ids) :
       /\ \A id \in ids \cap {<<1, 8>>} : own[id] = "u1"
       /\ orders = [id \in OrderIds |->
                      IF id \in ids
                      THEN <<[user |-> own[id], status |-> StNEW, accrual |-> <<>>]>>
                      ELSE <<>>]
       /\ queue = [i \in DOMAIN f |->
                     [id |-> f[i], user |-> own[f[i]], status |-> StNEW, accrual |-> <<>>]]
  /\ wallets = [u \in Users |-> NoWallet]
  /\ withdrawals = <<>>
  /\ applied = [id \in OrderIds |-> <<>>]
  /\ Registered
  /\ FreshProcess

InitAdmitted == Admitted(ValidIds)

\* row i of a table of which the first t rows have reached a terminal
\* status; a row is PROCESSING, INVALID or PROCESSED only with an accrual
RecoveryRow(i, t) ==
  [user |-> "u1",
   status |-> IF i <= t THEN (IF i % 2 = 0 THEN StINVALID ELSE StPROCESSED)
              ELSE (IF i % 2 = 0 THEN StPROCESSING ELSE StNEW),
   accrual |-> IF i > t /\ i % 2 = 1 THEN <<>> ELSE <<1>>]

\* the process is about to start on a database that holds n orders of one
\* user (identifiers named by row number), t of them terminal
InitRecovery ==
  /\ \E n \in 0 .. MaxRows, t \in 0 .. MaxRows :
       /\ t <= n
       /\ orders = [i \in 1 .. n |-> <<RecoveryRow(i, t)>>]
       /\ applied = [i \in 1 .. n |-> RecoveryRow(i, t).accrual]
       /\ wallets = [u \in Users |->
                      [credits |-> IF u = "u1"
                                   THEN Cardinality({i \in 1 .. n : RecoveryRow(i, t).accrual # <<>>})
                                   ELSE 0,
                       debits |-> 0]]
  /\ withdrawals = <<>>
  /\ queue = <<>>
  /\ lock = [u \in Users |-> Free]
  /\ cache = [id \in CacheKeys |-> <<>>]
  /\ evicting = <<>>
  /\ ppc = "recv"
  /\ cur = NoOrder
  /\ creq = [c \in CSlots |-> IdleC]
  /\ wreq = [w \in WSlots |-> IdleW]
  /\ phase = "down"
  /\ crashes = 0
  /\ fails = [id \in OrderIds |-> 0]
  /\ Registered
  /\ rreq = [r \in RSlots |-> IdleR]
  /\ now = 0
  /\ last = <<>>
  /\ requests = <<>>
  /\ shutdown = "no"

\* one order has been processed and credited, a second one has been
\* admitted and waits in the channel
InitLedger ==
  /\ \E u1 \in Users, u2 \in Users, a \in 1 .. MaxAccrual :
       /\ orders = [id \in OrderIds |->
                      CASE id = <<2, 6>> ->
                             <<[user |-> u1, status |-> StPROCESSED, accrual |-> <<a>>]>>
                        [] id = <<1, 8>> ->
                             <<[user |-> u2, status |-> StNEW, accrual |-> <<>>]>>
                        [] OTHER -> <<>>]
       /\ wallets = [u \in Users |-> [credits |-> IF u = u1 THEN a ELSE 0, debits |-> 0]]
       /\ applied = [id \in OrderIds |-> IF id = <<2, 6>> THEN <<a>> ELSE <<>>]
       /\ queue = <<[id |-> <<1, 8>>, user |-> u2, status |-> StNEW, accrual |-> <<>>]>>
  /\ withdrawals = <<>>
  /\ Registered
  /\ FreshProcess

NextIntake == \E c \in CSlots : Intake(c)

NextWithdraw == \E w \in WSlots : Withdraw(w)

NextProcessor ==
  \/ PRecv
  \/ PPoll
  \/ PUpdate
  \/ PCredit
  \/ PCommit

NextCache ==
  \/ \E id \in CacheKeys : CacheExpire(id)
  \/ DeleteExpired
  \/ OnEvicted

NextCrash ==
  \/ Crash
  \/ Restart

NextRegister == \E r \in RSlots : Register(r)

Next ==
  \/ NextShutdown
  \/ NextRegister
  \/ NextIntake
  \/ NextWithdraw
  \/ NextProcessor
  \/ NextCache
  \/ NextCrash

\* the whole service
Spec == Init /\ [][Next]_vars

\* the wallet ledger: withdrawals against the processor's credits
SpecLedger == InitLedger /\ [][NextWithdraw \/ NextProcessor]_vars

\* order intake with the processor behind it
SpecIntake == Init /\ [][NextIntake \/ NextProcessor \/ NextCache]_vars

\* one order submission and one withdrawal, with the processor
SpecHandlers == Init /\ [][Intake("c1") \/ Withdraw("w1") \/ NextProcessor]_vars

\* the processor with its retry buffer, over crashes and restarts
SpecProcessor == InitAdmitted /\ [][NextProcessor \/ NextCache \/ NextCrash]_vars

\* process starts, and crashes between them, on a database of many orders
SpecRecovery == InitRecovery /\ [][NextCrash]_vars

\* the process has started on QueueCap orders of one user that were
\* admitted at once (identifiers named by row number) and has sent them
\* all to the channel
InitRate ==
  /\ orders = [i \in 1 .. QueueCap |-> <<[user |-> "u1", status |-> StNEW, accrual |-> <<>>]>>]
  /\ queue = [i \in 1 .. QueueCap |->
                [id |-> i, user |-> "u1", status |-> StNEW, accrual |-> <<>>]]
  /\ cache = [i \in 1 .. QueueCap |-> <<>>]
  /\ applied = [i \in 1 .. QueueCap |-> <<>>]
  /\ fails = [i \in 1 .. QueueCap |-> 0]
  /\ wallets = [u \in Users |-> NoWallet]
  /\ withdrawals = <<>>
  /\ lock = [u \in Users |-> Free]
  /\ evicting = <<>>
  /\ ppc = "recv"
  /\ cur = NoOrder
  /\ creq = [c \in CSlots |-> IdleC]
  /\ wreq = [w \in WSlots |-> IdleW]
  /\ phase = "up"
  /\ crashes = 0
  /\ Registered
  /\ rreq = [r \in RSlots |-> IdleR]
  /\ now = 0
  /\ last = <<>>
  /\ requests = <<>>
  /\ shutdown = "no"

\* the processor behind its rate limiter, with the clock followed, for the
\* first seconds after a start (no buffered order expires that early)
SpecRate == InitRate /\ [][PRecv \/ OracleDown \/ Tick]_vars

\* identifiers of the orders that fill the channel
Backlog == {<<0, i>> : i \in 1 .. QueueCap}

\* the process has started on QueueCap unfinished orders of one user, has
\* sent them all to the channel and now serves requests
InitBacklog ==
  /\ orders = [id \in OrderIds \cup Backlog |->
                 IF id \in Backlog
                 THEN <<[user |-> "u1", status |-> StNEW, accrual |-> <<>>]>>
                 ELSE <<>>]
  /\ queue = [i \in 1 .. QueueCap |->
                [id |-> <<0, i>>, user |-> "u1", status |-> StNEW, accrual |-> <<>>]]
  /\ applied = [id \in OrderIds \cup Backlog |-> <<>>]
  /\ wallets = [u \in Users |-> NoWallet]
  /\ withdrawals = <<>>
  /\ Registered
  /\ FreshProcess

\* order submissions against a full channel while the processor takes one
\* order and waits for the oracle's answer
SpecBackpressure == InitBacklog /\ [][NextIntake \/ PRecv]_vars

\* the retry buffer as a component: its callers are not assumed to hold one
\* copy of an order each. The channel holds two values of order <<1, 8>>,
\* as admitted and as the oracle last answered, and one of order <<2, 6>>
InitCache ==
  /\ \E u \in Users :
       /\ orders = [id \in OrderIds |->
                      IF id \in {<<1, 8>>, <<2, 6>>}
                      THEN <<[user |-> u, status |-> StNEW, accrual |-> <<>>]>>
                      ELSE <<>>]
       /\ queue = <<[id |-> <<1, 8>>, user |-> u, status |-> StNEW, accrual |-> <<>>],
                    [id |-> <<1, 8>>, user |-> u, status |-> StPROCESSING,
                     accrual |-> <<MaxAccrual>>],
                    [id |-> <<2, 6>>, user |-> u, status |-> StNEW, accrual |-> <<>>]>>
  /\ wallets = [u \in Users |-> NoWallet]
  /\ withdrawals = <<>>
  /\ applied = [id \in OrderIds |-> <<>>]
  /\ Registered
  /\ FreshProcess

\* the retry buffer under a processor whose every poll of the oracle fails
SpecCache == InitCache /\ [][PRecv \/ OracleFails \/ NextCache]_vars

\* a fresh database: nobody has registered
InitRegister ==
  /\ users = {}
  /\ wallets = <<>>
  /\ orders = [id \in OrderIds |-> <<>>]
  /\ withdrawals = <<>>
  /\ queue = <<>>
  /\ applied = [id \in OrderIds |-> <<>>]
  /\ FreshProcess

\* registrations, over crashes and restarts
SpecRegister == InitRegister /\ [][NextRegister \/ NextCrash]_vars

\* the processor and its retry buffer against the scripted oracle, with a
\* database that does not fail
NextRetry ==
  \/ PRecv
  \/ OracleFails
  \/ OracleProcessed
  \/ PUpdateOk
  \/ PCreditOk
  \/ PCommitOk
  \/ \E id \in CacheKeys : CacheExpire(id)
  \/ DeleteExpired
  \/ OnEvicted

\* the ProcessOrders goroutine keeps running, a TTL runs out, the janitor
\* ticks, and a send on a channel with room completes
FairRetry ==
  /\ WF_vars(PRecv)
  /\ WF_vars(OracleFails)
  /\ WF_vars(OracleProcessed)
  /\ WF_vars(PUpdateOk)
  /\ WF_vars(PCreditOk)
  /\ WF_vars(PCommitOk)
  /\ \A id \in OrderIds : WF_vars(CacheExpire(id))
  /\ WF_vars(DeleteExpired)
  /\ WF_vars(OnEvicted)

SpecRetry == InitAdmitted /\ [][NextRetry]_vars /\ FairRetry

\* the oracle has decided: it answers INVALID, with the accrual 0 that the
\* decoded AccrualResponseDto carries when the body names none
OracleInvalid ==
  /\ PollAnswered([status |-> "INVALID", accrual |-> 0])
  /\ UNCHANGED <<fails, now, last, requests>>

\* the processor and its retry buffer against an oracle that answers every
\* call with a terminal status, INVALID or PROCESSED with a > 0, and a
\* database that does not fail
NextTerminal ==
  \/ PRecv
  \/ OracleInvalid
  \/ OracleProcessed
  \/ PUpdateOk
  \/ PUpdateRejected
  \/ PCreditOk
  \/ PCommitOk
  \/ \E id \in CacheKeys : CacheExpire(id)
  \/ DeleteExpired
  \/ OnEvicted

FairTerminal ==
  /\ WF_vars(PRecv)
  /\ WF_vars(OracleInvalid \/ OracleProcessed)
  /\ WF_vars(PUpdateOk)
  /\ WF_vars(PUpdateRejected)
  /\ WF_vars(PCreditOk)
  /\ WF_vars(PCommitOk)
  /\ \A id \in OrderIds : WF_vars(CacheExpire(id))
  /\ WF_vars(DeleteExpired)
  /\ WF_vars(OnEvicted)

SpecTerminal == InitAdmitted /\ [][NextTerminal]_vars /\ FairTerminal

\* the oracle reports a negative accrual: the body's number is decoded
\* into a float64 as it is
OracleNegative ==
  /\ \E s \in OracleStatuses : PollAnswered([status |-> s, accrual |-> 0 - 1])
  /\ UNCHANGED <<fails, now, last, requests>>

\* the wallet ledger with amounts of either sign on both sides: withdrawals
\* of -1 .. MaxAmount against a processor whose oracle reports accruals of
\* -1 .. MaxAccrual
SpecSigned == InitLedger /\ [][NextWithdraw \/ NextProcessor \/ OracleNegative]_vars

\* GetOrderInfo("") for the zero value: ServiceURL + "/api/orders/" names
\* no order and the oracle answers neither 200 nor 204: the error branch
OracleRejectsEmpty ==
  /\ cur = NoOrder
  /\ PollFailed
  /\ UNCHANGED <<fails, now, last, requests>>

\* main shuts down while the processor retries against the scripted oracle
\* and the janitor empties the retry buffer
NextClose ==
  \/ PRecv
  \/ OracleFails
  \/ OracleRejectsEmpty
  \/ \E id \in CacheKeys : CacheExpire(id)
  \/ DeleteExpired
  \/ OnEvicted
  \/ NextShutdown

SpecClose == InitAdmitted /\ [][NextClose]_vars

\* the processor's steps go on, and the select, which picks among its
\* ready cases at random, does not pass over case <-ctx.Done() for ever
FairShutdown ==
  /\ WF_vars(PPoll)
  /\ WF_vars(PUpdate)
  /\ WF_vars(PCredit)
  /\ WF_vars(PCommit)
  /\ SF_vars(PExit)

\* the processor while main shuts down, within the TTL of the orders it
\* buffers
SpecShutdown ==
  /\ InitAdmitted
  /\ [][NextProcessor \/ CloseChannel \/ StopCtx \/ MainReturns \/ PRecvClosed \/ PExit]_vars
  /\ FairShutdown

TypeOK ==
  /\ \A u \in Users : lock[u] \in {Free, ProcTx} \cup WSlots
  /\ phase \in {"up", "down", "stuck"}
  /\ ppc \in {"recv", "poll", "update", "credit", "commit", "returned"}
  /\ shutdown \in {"no", "closed", "cancelled"}

\* ------------------------------------------------------------ properties
\* C1: in every committed state every wallet has credits - debits >= 0,
\* whatever the interleaving of withdrawals and processor credits
C1_BalanceNonNegative ==
  \A u \in Users : wallets[u].credits - wallets[u].debits >= 0

\* a wallet that was credited by the processor and then withdrawn to zero
C1_Drained ==
  \E u \in Users :
    /\ wallets[u].debits > 0
    /\ wallets[u].credits = wallets[u].debits
    /\ orders[<<1, 8>>][1].user = u
    /\ applied[<<1, 8>>] # <<>>

\* C2: an order that is PROCESSED with a non-null accrual has had exactly
\* that accrual credited, by exactly one committed transaction, over
\* oracle failures, retries, crashes and restarts
C2_CreditedExactlyOnce ==
  \A id \in OrderIds :
    (/\ orders[id] # <<>>
     /\ orders[id][1].status = StPROCESSED
     /\ orders[id][1].accrual # <<>>)
    => applied[id] = orders[id][1].accrual

\* sum(order.accrual) over the orders in S
RECURSIVE AccrualSum(_)
AccrualSum(S) ==
  IF S = {} THEN 0
  ELSE LET id == CHOOSE x \in S : TRUE
       IN orders[id][1].accrual[1] + AccrualSum(S \ {id})

\* sum(order.accrual where order.userID = u and order.status = PROCESSED)
ProcessedSum(u) ==
  AccrualSum({id \in OrderIds : /\ orders[id] # <<>>
                                /\ orders[id][1].user = u
                                /\ orders[id][1].status = StPROCESSED
                                /\ orders[id][1].accrual # <<>>})

\* none of u's orders is NEW or PROCESSING
NoPending(u) == \A id \in Unprocessed(orders) : orders[id][1].user # u

\* C3: each wallet's credits are at least the sum of the accruals of its
\* owner's PROCESSED orders, and equal to it when the owner has no order in
\* a non-terminal status
C3_CreditsMatchProcessed ==
  \A u \in Users :
    /\ wallets[u].credits >= ProcessedSum(u)
    /\ NoPending(u) => wallets[u].credits = ProcessedSum(u)

\* sum(withdrawal.amount where withdrawal.userID = u)
RECURSIVE WithdrawnSum(_, _)
WithdrawnSum(rows, u) ==
  IF rows = <<>> THEN 0
  ELSE (IF Head(rows).user = u THEN Head(rows).amount ELSE 0) + WithdrawnSum(Tail(rows), u)

\* C4: in every committed state each wallet's debits equal the sum of the
\* amounts of the withdrawal rows of the same user
C4_DebitsMatchWithdrawals ==
  \A u \in Users : wallets[u].debits = WithdrawnSum(withdrawals, u)

\* two withdrawals of one user have committed
C4_TwoWithdrawals ==
  \E u \in Users :
    /\ Len(withdrawals) = 2
    /\ \A i \in 1 .. 2 : withdrawals[i].user = u
    /\ wallets[u].debits = 2

\* C5: a withdrawal whose debit runs against a balance smaller than its
\* amount is answered 402 and changes no row: the request is over, holds
\* no lock, and orders, wallets and withdrawals are as before
C5_InsufficientFunds ==
  [][\A w \in WSlots :
       (/\ wreq[w].pc = "debit"
        /\ ~wreq[w].expired
        /\ wreq'[w].pc # "debit"
        /\ phase' = "up"
        /\ wreq[w].amount > wallets[wreq[w].user].credits - wallets[wreq[w].user].debits)
       => (/\ wreq'[w].pc = "done"
           /\ wreq'[w].res = 402
           /\ lock'[wreq[w].user] # w
           /\ UNCHANGED <<orders, wallets, withdrawals>>)]_vars

\* a request was refused with 402 on a wallet that has credits
C5_Refused ==
  \E w \in WSlots :
    /\ wreq[w].pc = "done"
    /\ wreq[w].res = 402
    /\ wallets[wreq[w].user].credits > 0
    /\ wreq[w].amount > wallets[wreq[w].user].credits - wallets[wreq[w].user].debits

\* the request's transaction committed (also when the answer was the late
\* timeout)
Committed(r) ==
  /\ r.pc = "done"
  /\ r.res = 200 \/ (r.res = 500 /\ r.msg = "Timeout exceeded")

\* the request's debit ran and its outcome is known
Decided(r) == Committed(r) \/ (r.pc = "done" /\ r.res = 402)

\* r2 saw exactly what r1 left behind
SerialAfter(r1, r2) ==
  /\ r2.wallet.debits =
       r1.wallet.debits - (IF Committed(r1) THEN 0 ELSE r1.amount) + r2.amount
  /\ r2.wallet.credits >= r1.wallet.credits

\* C6: two withdrawals on one wallet are serialised: one of them saw the
\* row as the other left it; together they never take more than the
\* credits; and when each amount fits the balance but the sum does not,
\* exactly one commits and the other is answered 402
C6_WithdrawalsSerialise ==
  \A w1 \in WSlots, w2 \in WSlots :
    LET r1 == wreq[w1]
        r2 == wreq[w2]
        before == Min(r1.wallet.debits - r1.amount, r2.wallet.debits - r2.amount)
        least == Min(r1.wallet.credits, r2.wallet.credits) - before
        most == wallets[r1.user].credits - before
    IN (w1 # w2 /\ r1.user = r2.user /\ Decided(r1) /\ Decided(r2)) =>
         /\ SerialAfter(r1, r2) \/ SerialAfter(r2, r1)
         /\ (Committed(r1) /\ Committed(r2)) => r1.amount + r2.amount <= most
         /\ (r1.amount <= least /\ r2.amount <= least /\ r1.amount + r2.amount > most)
              => (Committed(r1) /\ r2.res = 402) \/ (Committed(r2) /\ r1.res = 402)

\* each amount fits, the sum does not: one answered 200, the other 402
C6_OneOfTwo ==
  \E w1 \in WSlots, w2 \in WSlots :
    /\ w1 # w2
    /\ wreq[w1].user = wreq[w2].user
    /\ wreq[w1].res = 200
    /\ wreq[w2].res = 402
    /\ wreq[w1].amount > 0
    /\ wreq[w2].amount <= wreq[w2].wallet.credits
    /\ wreq[w2].wallet.debits = wreq[w1].amount + wreq[w2].amount

\* C7: an order submission that finds the identifier owned by another user
\* is answered 409 and changes neither the order rows nor the channel nor
\* the retry buffer; 409 is given in no other case; and a row's owner
\* never changes
C7_OwnedByOther ==
  [][/\ \A c \in CSlots :
          (/\ creq[c].pc = "lookup"
           /\ ~creq[c].expired
           /\ creq'[c].pc # "lookup"
           /\ orders[creq[c].id] # <<>>
           /\ orders[creq[c].id][1].user # creq[c].user)
          => (/\ creq'[c].pc = "done"
              /\ creq'[c].res = 409
              /\ UNCHANGED <<orders, queue, cache, evicting>>)
     /\ \A c \in CSlots :
          (creq'[c].res = 409 /\ creq[c].res # 409)
          => (/\ orders[creq[c].id] # <<>>
              /\ orders[creq[c].id][1].user # creq[c].user)
     /\ \A id \in OrderIds :
          orders[id] # <<>>
          => (orders'[id] # <<>> /\ orders'[id][1].user = orders[id][1].user)]_vars

\* the same identifier from two users: 202 for one, 409 for the other
C7_AcceptedThenConflict ==
  \E c1 \in CSlots, c2 \in CSlots :
    /\ creq[c1].id = creq[c2].id
    /\ creq[c1].user # creq[c2].user
    /\ creq[c1].res = 202
    /\ creq[c2].res = 409
    /\ orders[creq[c1].id][1].user = creq[c1].user

\* C8: a submission that finds the identifier owned by the submitting user
\* is answered 200 and changes neither the order rows nor the channel nor
\* the retry buffer; 202 is given only to the submission that inserted the
\* row, at the step that sends the order to the channel; and no identifier
\* is answered 202 twice
C8_RepeatedOrder ==
  [][/\ \A c \in CSlots :
          (/\ creq[c].pc = "lookup"
           /\ ~creq[c].expired
           /\ creq'[c].pc # "lookup"
           /\ orders[creq[c].id] # <<>>
           /\ orders[creq[c].id][1].user = creq[c].user)
          => (/\ creq'[c].pc = "done"
              /\ creq'[c].res = 200
              /\ UNCHANGED <<orders, queue, cache, evicting>>)
     /\ \A c \in CSlots :
          (creq'[c].res = 202 /\ creq[c].res # 202)
          => (/\ creq[c].pc = "send"
              /\ orders[creq[c].id] # <<>>
              /\ orders[creq[c].id][1].user = creq[c].user
              /\ Len(queue') = Len(queue) + 1
              /\ queue'[Len(queue')].id = creq[c].id
              /\ \A d \in CSlots \ {c} :
                   ~(creq[d].id = creq[c].id /\ (creq[d].res = 202 \/ creq[d].pc = "send")))]_vars

\* the same identifier twice from one user: 202, then 200
C8_AcceptedThenRepeated ==
  \E c1 \in CSlots, c2 \in CSlots :
    /\ creq[c1].id = creq[c2].id
    /\ creq[c1].user = creq[c2].user
    /\ creq[c1].res = 202
    /\ creq[c2].res = 200
    /\ orders[creq[c1].id] # <<>>

\* C9: a request that names the identifier 12, which fails the Luhn check,
\* is answered 422 without a service call (no debit ran, no lock is held),
\* and no order row, channel entry, retry-buffer entry or withdrawal row
\* carries that identifier; the wallets' debits are those of the
\* withdrawal rows
C9_LuhnRejected ==
  /\ \A c \in CSlots :
       creq[c].id = <<1, 2>> => (creq[c].pc = "done" /\ creq[c].res = 422)
  /\ \A w \in WSlots :
       wreq[w].id = <<1, 2>>
       => (/\ wreq[w].pc = "done"
           /\ wreq[w].res = 422
           /\ wreq[w].wallet = NoWallet
           /\ lock[wreq[w].user] # w)
  /\ orders[<<1, 2>>] = <<>>
  /\ cache[<<1, 2>>] = <<>>
  /\ cur.id # <<1, 2>>
  /\ \A i \in DOMAIN queue : queue[i].id # <<1, 2>>
  /\ \A i \in DOMAIN evicting : evicting[i].id # <<1, 2>>
  /\ \A i \in DOMAIN withdrawals : withdrawals[i].order # <<1, 2>>
  /\ \A u \in Users : wallets[u].debits = WithdrawnSum(withdrawals, u)

\* both endpoints have refused the identifier 12
C9_BothRefused ==
  /\ creq["c1"].id = <<1, 2>>
  /\ creq["c1"].res = 422
  /\ wreq["w1"].id = <<1, 2>>
  /\ wreq["w1"].res = 422

\* every admitted order is PROCESSED and its accrual was credited once
AllProcessed ==
  /\ \A id \in ValidIds :
       /\ orders[id][1].status = StPROCESSED
       /\ orders[id][1].accrual # <<>>
       /\ orders[id][1].accrual[1] > 0
       /\ applied[id] = orders[id][1].accrual
  /\ \A u \in Users : wallets[u].credits = ProcessedSum(u)

\* C10: when the oracle fails finitely often for an admitted order and
\* then answers PROCESSED with a > 0, the order eventually is PROCESSED and
\* its owner's credits have grown by exactly a, and it stays so
C10_RetryThenProcessed == <>[]AllProcessed

\* an order is PROCESSED and credited after MaxFails failed oracle calls
C10_ProcessedAfterFails ==
  /\ AllProcessed
  /\ \E id \in ValidIds : fails[id] = MaxFails

\* how often identifier id is in the channel q
QueuedTimes(q, id) == Cardinality({i \in DOMAIN q : q[i].id = id})

\* C11: a process start leaves every order whose status is NEW or
\* PROCESSING exactly once in the channel, and no other order
C11_RecoveredExactlyOnce ==
  [][(phase = "down" /\ phase' # "down")
     => \A id \in DOMAIN orders :
          QueuedTimes(queue', id) = (IF id \in Unprocessed(orders) THEN 1 ELSE 0)]_vars

\* C12: when the transaction for a response that maps to NEW or PROCESSING
\* has committed, the order is in the retry buffer
C12_NonTerminalBuffered ==
  [][(/\ ppc = "commit"
      /\ cur.status \in {StNEW, StPROCESSING}
      /\ applied'[cur.id] # applied[cur.id])
     => cache'[cur.id] # <<>>]_vars

\* the order row of id has status INVALID or PROCESSED
Terminal(id) == orders[id] # <<>> /\ orders[id][1].status \in {StINVALID, StPROCESSED}

\* id is in the channel, in the processor's hands, in the retry buffer or
\* on its way from the buffer to the channel
InMemory(id) ==
  \/ QueuedTimes(queue, id) > 0
  \/ cur.id = id
  \/ cache[id] # <<>>
  \/ QueuedTimes(evicting, id) > 0

\* C13: from the commit of INVALID or PROCESSED on, the order is neither in
\* the channel nor in the retry buffer nor in the processor's hands, over
\* buffer expiry, crashes and startup recoveries, and its row stays as it is
C13_TerminalNotRequeued ==
  [][\A id \in OrderIds :
       /\ Terminal(id)' => ~InMemory(id)'
       /\ Terminal(id) => orders'[id] = orders[id]]_vars

\* a process start with one order terminal and another one recovered
C13_RestartAfterTerminal ==
  /\ crashes > 0
  /\ phase = "up"
  /\ \E id \in OrderIds : Terminal(id)
  /\ queue # <<>>

\* C14: the step that follows a failed oracle call puts the dequeued order,
\* as it was received, into the retry buffer, changes no row and no
\* channel entry, and returns to the receive
C14_OracleFailureBuffered ==
  [][(ppc = "poll" /\ ppc' = "recv" /\ phase' = "up")
     => (/\ cache'[cur.id] = <<[val |-> cur, expired |-> FALSE]>>
         /\ \A id \in OrderIds \ {cur.id} : cache'[id] = cache[id]
         /\ cur' = NoOrder
         /\ UNCHANGED <<orders, wallets, withdrawals, applied, queue>>)]_vars

\* an order is buffered as it was admitted, after a failed oracle call
C14_BufferedAfterFailure ==
  \E id \in OrderIds :
    /\ cache[id] # <<>>
    /\ cache[id][1].val.accrual = <<>>
    /\ orders[id][1].status = StNEW
    /\ ppc = "recv"

\* C15: a transaction of the processor that ends without a commit leaves
\* the order in the retry buffer
C15_FailedOrderBuffered ==
  [][(/\ ppc \in {"update", "credit", "commit"}
      /\ ppc' = "recv"
      /\ phase' = "up"
      /\ applied' = applied)
     => cache'[cur.id] # <<>>]_vars

RECURSIVE SumSeq(_)
SumSeq(q) == IF q = <<>> THEN 0 ELSE Head(q) + SumSeq(Tail(q))

\* what committed transactions have credited for the orders in S
RECURSIVE AppliedSum(_)
AppliedSum(S) ==
  IF S = {} THEN 0
  ELSE LET id == CHOOSE x \in S : TRUE
       IN SumSeq(applied[id]) + AppliedSum(S \ {id})

\* C16: in every committed state an order row carries the status and
\* accrual of the last transaction that credited for it, or is as admitted
\* when none has, and each wallet's credits are the sum of what those
\* transactions credited: neither write is ever committed without the other
C16_UpdateAndCreditTogether ==
  /\ \A id \in OrderIds :
       orders[id] # <<>>
       => IF applied[id] = <<>>
          THEN orders[id][1].status = StNEW /\ orders[id][1].accrual = <<>>
          ELSE orders[id][1].accrual = <<applied[id][Len(applied[id])]>>
  /\ \A u \in Users :
       wallets[u].credits =
         AppliedSum({id \in OrderIds : orders[id] # <<>> /\ orders[id][1].user = u})

\* one transaction has committed, another one was rolled back after its
\* update and is buffered
C16_CommittedAndRolledBack ==
  \E id1 \in OrderIds, id2 \in OrderIds :
    /\ applied[id1] # <<>>
    /\ applied[id2] = <<>>
    /\ cache[id2] # <<>>
    /\ cache[id2][1].val.accrual # <<>>
    /\ cache[id2][1].val.accrual[1] > 0
    /\ orders[id2][1].accrual = <<>>

\* C20: in every committed state the wallets are exactly the users' wallets,
\* one per user, no wallet without its user, each created with balance
\* zero, whichever step of a registration fails
C20_UserHasOneWallet ==
  /\ DOMAIN wallets = {u.uuid : u \in users}
  /\ \A u \in users, v \in users : u.uuid = v.uuid => u = v
  /\ \A w \in DOMAIN wallets : wallets[w] = NoWallet

\* one registration has committed, one has failed at the user insert and
\* one at the wallet insert
C20_CommittedAndFailed ==
  /\ users # {}
  /\ \E r \in RSlots : rreq[r].pc = "done" /\ rreq[r].res = 200
  /\ \E r \in RSlots : rreq[r].pc = "done" /\ rreq[r].at = "user" /\ rreq[r].res = 409
  /\ \E r \in RSlots : rreq[r].pc = "done" /\ rreq[r].at = "wallet"

InFlight(id) ==
  {queue[i] : i \in {j \in DOMAIN queue : queue[j].id = id}}
    \cup {evicting[i] : i \in {j \in DOMAIN evicting : evicting[j].id = id}}
    \cup (IF cur # NoOrder /\ cur.id = id THEN {cur} ELSE {})

C19_EmittedPerEpisode ==
  [][\A id \in OrderIds :
       cache[id] # <<>>
       => \/ cache'[id] # <<>> /\ cache'[id][1].val = cache[id][1].val
          \/ \E i \in DOMAIN evicting' : evicting'[i] = cache[id][1].val]_vars

\* C17: the oracle client sends at most Rate requests in any minute:
\* request i + Rate goes out at least one minute after request i
C17_AtMostRatePerMinute ==
  \A i \in 1 .. Len(requests) - Rate : requests[i + Rate] - requests[i] >= Minute

\* C26: mapAccrualResponseStatus maps REGISTERED to NEW, PROCESSING to
\* PROCESSING, INVALID to INVALID, PROCESSED to PROCESSED and every other
\* value, the empty string among them, to INVALID; the status the
\* processor carries after an answer is one of these four
C26_StatusMapping ==
  /\ \A s \in OracleStatuses :
       mapAccrualResponseStatus(s) =
         IF s = "REGISTERED" THEN StNEW
         ELSE IF s = "PROCESSING" THEN StPROCESSING
         ELSE IF s = "PROCESSED" THEN StPROCESSED
         ELSE StINVALID
  /\ ppc \in {"update", "credit", "commit"}
       => cur.status \in {StNEW, StPROCESSING, StINVALID, StPROCESSED}

\* the processor has mapped an answer REGISTERED to NEW, and an earlier
\* answer for another order to INVALID
C26_MappedAnswers ==
  /\ ppc = "update"
  /\ cur.status = StNEW
  /\ cur.accrual # <<>>
  /\ \E id \in OrderIds : orders[id] # <<>> /\ orders[id][1].status = StINVALID

\* C27: the processor changes a wallet only for an answer whose status
\* maps to PROCESSED: a step of the processor that carries NEW, PROCESSING
\* or INVALID leaves every wallet as it was, whatever the accrual
C27_CreditOnlyProcessed ==
  [][(ppc = "commit" /\ wallets' # wallets) => cur.status = StPROCESSED]_vars

\* C28: in every committed state an order row has an accrual only if its
\* status is PROCESSED, and every accrual is strictly positive
C28_AccrualOnlyProcessed ==
  \A id \in DOMAIN orders :
    (orders[id] # <<>> /\ orders[id][1].accrual # <<>>)
    => (orders[id][1].status = StPROCESSED /\ orders[id][1].accrual[1] > 0)

C21_DeadlineGivesTimeout ==
  [][/\ \A w \in WSlots :
          (wreq[w].expired /\ wreq[w].pc \in {"debit", "insert"} /\ wreq'[w].pc = "done"
           /\ phase' = "up")
          => /\ wreq'[w].res = 500
             /\ wreq'[w].msg = "Timeout exceeded"
             /\ wallets' = wallets
             /\ withdrawals' = withdrawals
     /\ \A c \in CSlots :
          (creq[c].expired /\ creq[c].pc = "insert" /\ creq'[c].pc = "done"
           /\ phase' = "up")
          => /\ creq'[c].res = 500
             /\ creq'[c].msg = "Timeout exceeded"
             /\ orders' = orders
     /\ \A r \in RSlots :
          (rreq[r].expired /\ rreq[r].pc \in {"user", "wallet", "commit"}
           /\ rreq'[r].pc = "done" /\ phase' = "up")
          => /\ rreq'[r].res = 500
             /\ rreq'[r].msg = "Timeout exceeded"
             /\ users' = users
             /\ wallets' = wallets]_vars

\* C22: a submission that waits to send into the full channel does not
\* wait beyond its deadline: once the deadline has passed the request can
\* go on (to its Timeout answer) without a slot becoming free
C22_BlockedSendCancelled ==
  \A c \in CSlots :
    (creq[c].pc = "send" /\ creq[c].expired /\ Len(queue) = QueueCap)
    => ENABLED Intake(c)

\* C23: once its context is cancelled ProcessOrders returns (or the
\* process has ended), whatever the channel holds, and after it has
\* returned no order row and no wallet changes
C23_ProcessorReturns ==
  /\ (phase = "up" /\ shutdown = "cancelled") ~> (ppc = "returned" \/ phase = "down")
  /\ [][ppc = "returned" => (orders' = orders /\ wallets' = wallets)]_vars

\* ProcessOrders has returned with an order left in the channel
C23_ReturnedWithQueue ==
  /\ phase = "up"
  /\ ppc = "returned"
  /\ shutdown = "cancelled"
  /\ queue # <<>>

\* C24: after the channel has been closed the processor does not take the
\* zero value of the closed channel for an order: it neither polls the
\* oracle for it nor buffers it
C24_ZeroValueNotHandled ==
  /\ (phase = "up" /\ ppc # "recv" /\ ppc # "returned") => cur # NoOrder
  /\ cache[NoOrder.id] = <<>>

\* every admitted order has a terminal status and is in nobody's hands
AllSettled ==
  \A id \in ValidIds : Terminal(id) /\ ~InMemory(id)

\* C29: when the oracle answers every call for an admitted order with a
\* terminal status (INVALID with accrual 0, or PROCESSED), the order's row
\* eventually has a terminal status and the order is not polled again
C29_TerminalAnswerSettles == <>[]AllSettled

\* C30: a buffered order is emitted when its TTL runs out, not at the next
\* janitor tick: no entry whose TTL has run out is still in the buffer
C30_EmittedAtExpiry ==
  \A id \in DOMAIN cache : cache[id] # <<>> => ~cache[id][1].expired

\* C31: within a process lifetime an order that was buffered after a poll
\* is not polled again before its buffer entry has expired: an entry leaves
\* the buffer only expired, and an order the processor receives has no live
\* entry in the buffer
C31_PolledAfterExpiry ==
  [][/\ \A id \in OrderIds :
          (cache[id] # <<>> /\ cache'[id] = <<>> /\ crashes' = crashes)
          => cache[id][1].expired
     /\ (ppc = "recv" /\ ppc' = "poll" /\ cur'.id \in OrderIds)
          => (cache[cur'.id] = <<>> \/ cache[cur'.id][1].expired)]_vars

\* an order that was answered, rolled back and buffered is with the
\* processor again, in the same process lifetime
C31_PolledAgain ==
  /\ crashes = 0
  /\ ppc = "poll"
  /\ cur.accrual # <<>>

\* the order values the process holds: in the channel, on their way from
\* the buffer to the channel, in the buffer, and the one the processor works on
HeldOrders ==
  {queue[i] : i \in DOMAIN queue}
    \cup {evicting[i] : i \in DOMAIN evicting}
    \cup {cache[id][1].val : id \in {k \in DOMAIN cache : cache[k] # <<>>}}
    \cup (IF ppc \in {"poll", "update", "credit", "commit"} THEN {cur} ELSE {})

\* C32: intake persists before it enqueues: every order in the channel,
\* with the processor or in the retry buffer has a committed order row with
\* the same identifier and owner
C32_HeldOrderHasRow ==
  \A o \in HeldOrders :
    /\ o.id \in DOMAIN orders
    /\ orders[o.id] # <<>>
    /\ orders[o.id][1].user = o.user

\* C33: no committed transition lowers a wallet's credits or debits,
\* whatever the amounts of the processor's credits and of the withdrawal
\* requests are, zero and negative ones among them
C33_ColumnsNonDecreasing ==
  [][\A u \in DOMAIN wallets :
       /\ u \in DOMAIN wallets'
       /\ wallets'[u].credits >= wallets[u].credits
       /\ wallets'[u].debits >= wallets[u].debits]_vars

\* a withdrawal of a negative amount has passed the debit on a wallet with
\* debits > 0 and was rolled back at the insert, and an answer with a
\* negative accrual has been rolled back into the retry buffer
C33_NegativeRolledBack ==
  /\ \E w \in WSlots :
       /\ wreq[w].pc = "done"
       /\ wreq[w].amount < 0
       /\ wreq[w].msg = "create withdrawal"
       /\ wallets[wreq[w].user].debits > 0
  /\ \E id \in OrderIds :
       /\ cache[id] # <<>>
       /\ cache[id][1].val.accrual # <<>>
       /\ cache[id][1].val.accrual[1] < 0

C35_RecoveryTerminates == phase # "stuck"

\* how many copies of order id the process holds
Copies(id) ==
  QueuedTimes(queue, id) + QueuedTimes(evicting, id)
    + (IF cache[id] # <<>> THEN 1 ELSE 0)
    + (IF cur.id = id THEN 1 ELSE 0)

C37_NoSendAfterClose ==
  [][~(/\ phase = "up"
       /\ shutdown # "no"
       /\ evicting # <<>>
       /\ phase' = "down"
       /\ crashes' = crashes + 1)]_vars

\* C38: a request that was answered 500 "Timeout exceeded" has committed
\* nothing: no withdrawal row of that user, order and amount, no order row
\* of that identifier and user, no user of that login
C38_TimeoutMeansNoEffect ==
  /\ \A w \in WSlots :
       (wreq[w].pc = "done" /\ wreq[w].msg = "Timeout exceeded")
       => ~\E i \in DOMAIN withdrawals :
             withdrawals[i] = [user |-> wreq[w].user, order |-> wreq[w].id,
                               amount |-> wreq[w].amount]
  /\ \A c \in CSlots :
       (creq[c].pc = "done" /\ creq[c].msg = "Timeout exceeded")
       => (orders[creq[c].id] = <<>> \/ orders[creq[c].id][1].user # creq[c].user)
  /\ \A r \in RSlots :
       (rreq[r].pc = "done" /\ rreq[r].msg = "Timeout exceeded")
       => ~\E u \in users : u.login = rreq[r].login

\* C39: when two users submit the same new identifier together, the one
\* whose insert finds the other's row is answered 409, not an internal
\* error: an insert inside its deadline that ends the request because the
\* row exists, owned by another user, answers 409
C39_LoserGetsConflict ==
  [][\A c \in CSlots :
       (/\ creq[c].pc = "insert"
        /\ ~creq[c].expired
        /\ creq'[c].pc = "done"
        /\ orders[creq[c].id] # <<>>
        /\ orders[creq[c].id][1].user # creq[c].user)
       => creq'[c].res = 409]_vars

====
